---- MODULE Spec2Model ----
(***************************************************************************)
(* Half-edge connectivity (geom/halfedge.ts) and the index-list edge       *)
(* operators (geom/ops.ts) of aec-geometry-lab.                            *)
(*                                                                         *)
(* Arrays are 0-based in the source and 1-based here: slot i of a typed    *)
(* array is element i+1 of the sequence that models it.  Half-edge, face   *)
(* and vertex ids keep the source's 0-based numbering.                     *)
(*                                                                         *)
(* Positions are integers in a fixed unit of length.  A normal component   *)
(* is the real number x / L that recomputeNormals stores, written as the   *)
(* triple <<s, p, q>> that stands for s * sqrt(p / q), with s its sign     *)
(* and p / q a fraction in lowest terms.                                   *)
(***************************************************************************)
EXTENDS Integers, Sequences, FiniteSets, TLC

VARIABLES mm, last, earlier, steps, ui, ifc

vars == <<mm, last, earlier, steps, ui, ifc>>

---------------------------------------------------------------------------
(* Bounds of the model *)

\* arbitrary index lists have at most MaxFaces triangles ...
MaxFaces == 2
\* ... over MaxVerts vertices
MaxVerts == 3
\* at most MaxOps edgeFlip/edgeSplit calls are made on a loaded mesh
MaxOps == 2
\* index lists given to buildHalfEdge unchecked have at most MaxLen elements
MaxLen == 6
\* at most MaxLoads IFC files are chosen
MaxLoads == 3

---------------------------------------------------------------------------
(* Small helpers *)

RECURSIVE Pow2(_)
Pow2(n) == IF n = 0 THEN 1 ELSE 2 * Pow2(n - 1)

\* Coordinates are integers in units of 2^-MaxOps, so that every midpoint
\* 0.5 * (x + y) taken by at most MaxOps splits is again an integer.
Unit == Pow2(MaxOps)

\* slot i (0-based) of a sequence that models a JS array
At(s, i) == s[i + 1]

RECURSIVE GCD(_, _)
GCD(x, y) == IF y = 0 THEN x ELSE GCD(y, x % y)

\* the numbers 0 and 1 as normal components
Zero == <<0, 0, 1>>
One == <<1, 1, 1>>

\* x / L where L * L = l2 > 0
Quotient(x, l2) ==
  IF x = 0 THEN Zero
  ELSE LET g == GCD(x * x, l2)
       IN  <<IF x < 0 THEN -1 ELSE 1, (x * x) \div g, l2 \div g>>

---------------------------------------------------------------------------
(* buildHalfEdge *)

\* const prev = (h) => ...   (also prevOf, prevIndex)
prev(h) ==
  LET f    == h \div 3
      base == f * 3
  IN  IF h = base THEN base + 2 ELSE h - 1

\* (mutation of LocalHalfEdge: next runs on into the following block)
LocalHalfEdge_NextGlobal(indices, h) ==
  LET f == h \div 3
      k == h - 3 * f
  IN  [vert |-> At(indices, 3 * f + ((k + 1) % 3)),
       face |-> f,
       next |-> (h + 1) % Len(indices),
       twin |-> -1]

\* (mutation of LocalHalfEdge: vert is the vertex the half-edge starts at)
LocalHalfEdge_TailAsHead(indices, h) ==
  LET f == h \div 3
      k == h - 3 * f
  IN  [vert |-> At(indices, 3 * f + k),
       face |-> f,
       next |-> 3 * f + ((k + 1) % 3),
       twin |-> -1]

\* step 1 of buildHalfEdge: head, face and next of half-edge h
LocalHalfEdge(indices, h) ==
  LET f == h \div 3
      k == h - 3 * f
  IN  [vert |-> At(indices, 3 * f + ((k + 1) % 3)),
       face |-> f,
       next |-> 3 * f + ((k + 1) % 3),
       twin |-> -1]

\* (mutation of VertexLoop: a vertex keeps the first half-edge written)
RECURSIVE VertexLoop_KeepFirst(_, _, _)
VertexLoop_KeepFirst(indices, p, vs) ==
  IF p >= Len(indices) THEN vs
  ELSE VertexLoop_KeepFirst(indices, p + 1,
         IF vs[At(indices, p)] = -1 THEN [vs EXCEPT ![At(indices, p)] = p]
         ELSE vs)

\* vertices[i0].halfedge = h0; vertices[i1].halfedge = h1; ... in face order
RECURSIVE VertexLoop(_, _, _)
VertexLoop(indices, p, vs) ==
  IF p >= Len(indices) THEN vs
  ELSE VertexLoop(indices, p + 1, [vs EXCEPT ![At(indices, p)] = p])

\* (mutation of EdgeMapLoop: the first half-edge of a directed pair is kept)
RECURSIVE EdgeMapLoop_KeepFirst(_, _, _)
EdgeMapLoop_KeepFirst(H, h, m) ==
  IF h \notin DOMAIN H THEN m
  ELSE LET e == <<H[prev(h)].vert, H[h].vert>>
       IN  EdgeMapLoop_KeepFirst(H, h + 1,
             IF m[e] = -1 THEN [m EXCEPT ![e] = h] ELSE m)

\* edgeMap.set(`${from}_${to}`, h) for h = 0 .. 3F-1 (a later h overwrites)
RECURSIVE EdgeMapLoop(_, _, _)
EdgeMapLoop(H, h, m) ==
  IF h \notin DOMAIN H THEN m
  ELSE EdgeMapLoop(H, h + 1,
         [m EXCEPT ![<<H[prev(h)].vert, H[h].vert>>] = h])

\* edgeMap.get(`${to}_${from}`); -1 stands for undefined
TwinOf(H, edgeMap, h) == edgeMap[<<H[h].vert, H[prev(h)].vert>>]

buildHalfEdge(indices, vertexCount) ==
  LET F  == Len(indices) \div 3
      V  == 0 .. vertexCount - 1
      H0 == [h \in 0 .. 3 * F - 1 |-> LocalHalfEdge(indices, h)]
      em == EdgeMapLoop(H0, 0, [e \in V \X V |-> -1])
  IN  [vertices  |-> VertexLoop(indices, 0, [v \in V |-> -1]),
       halfedges |-> [h \in 0 .. 3 * F - 1 |->
                        [H0[h] EXCEPT !.twin = TwinOf(H0, em, h)]],
       faces     |-> [f \in 0 .. F - 1 |-> 3 * f]]

\* (mutation of FaceLoopBound: a trailing part of a triangle is not visited)
FaceLoopBound_WholeFaces(indices) == Len(indices) \div 3

\* for (let f = 0; f < F; f++) with F = indices.length / 3, a fraction when
\* the length is no multiple of 3: the number of iterations
FaceLoopBound(indices) == (Len(indices) + 2) \div 3

\* Iteration f of step 1 sets a property of an array element that does not
\* exist, which throws a TypeError: halfedges has indices.length elements,
\* faces has floor(F), vertices has vertexCount, and an index read past the
\* end of the list is undefined.
SetsUndefined(indices, vertexCount, f) ==
  LET n == Len(indices)
      novertex(p) == p >= n \/ At(indices, p) >= vertexCount
  IN  \/ 3 * f + 1 >= n
      \/ 3 * f + 2 >= n
      \/ f >= n \div 3
      \/ novertex(3 * f)
      \/ novertex(3 * f + 1)
      \/ novertex(3 * f + 2)

\* buildHalfEdge(indices, vertexCount) throws instead of returning
Throws(indices, vertexCount) ==
  \E f \in 0 .. FaceLoopBound(indices) - 1 :
    SetsUndefined(indices, vertexCount, f)

\* the outcome of a call that threw
TypeError == [error |-> "TypeError"]

---------------------------------------------------------------------------
(* The mutable mesh *)

vertexCount(m) == Len(m.positions) \div 3

\* cross product of (p1 - p0) and (p2 - p0) for triangle t (0-based slot)
FaceNormal(m, t) ==
  LET i0 == At(m.indices, t) * 3
      i1 == At(m.indices, t + 1) * 3
      i2 == At(m.indices, t + 2) * 3
      ax == At(m.positions, i1)     - At(m.positions, i0)
      ay == At(m.positions, i1 + 1) - At(m.positions, i0 + 1)
      az == At(m.positions, i1 + 2) - At(m.positions, i0 + 2)
      bx == At(m.positions, i2)     - At(m.positions, i0)
      by == At(m.positions, i2 + 1) - At(m.positions, i0 + 1)
      bz == At(m.positions, i2 + 2) - At(m.positions, i0 + 2)
  IN  <<ay * bz - az * by, az * bx - ax * bz, ax * by - ay * bx>>

\* (mutation of Accumulate: the face normal is added at the first corner only)
RECURSIVE Accumulate_FirstCorner(_, _, _)
Accumulate_FirstCorner(m, t, acc) ==
  IF t >= Len(m.indices) THEN acc
  ELSE LET n   == FaceNormal(m, t)
           add(a, v) == [a EXCEPT ![v * 3 + 1] = @ + n[1],
                                  ![v * 3 + 2] = @ + n[2],
                                  ![v * 3 + 3] = @ + n[3]]
       IN  Accumulate_FirstCorner(m, t + 3, add(acc, At(m.indices, t)))

\* mm.normals[i0] += nx; ... for the three corners of every triangle
RECURSIVE Accumulate(_, _, _)
Accumulate(m, t, acc) ==
  IF t >= Len(m.indices) THEN acc
  ELSE LET n   == FaceNormal(m, t)
           add(a, v) == [a EXCEPT ![v * 3 + 1] = @ + n[1],
                                  ![v * 3 + 2] = @ + n[2],
                                  ![v * 3 + 3] = @ + n[3]]
       IN  Accumulate(m, t + 3,
             add(add(add(acc, At(m.indices, t)),
                     At(m.indices, t + 1)), At(m.indices, t + 2)))

\* the normals array after recomputeNormals(mm)
recomputeNormals(m) ==
  LET acc == Accumulate(m, 0, [i \in 1 .. Len(m.normals) |-> 0])
      sq(i) == LET b == 3 * ((i - 1) \div 3)
               IN  acc[b + 1] * acc[b + 1] + acc[b + 2] * acc[b + 2]
                     + acc[b + 3] * acc[b + 3]
  IN  [i \in 1 .. Len(m.normals) |->
         Quotient(acc[i], IF sq(i) = 0 THEN 1 ELSE sq(i))]

---------------------------------------------------------------------------
(* edgeFlip *)

\* const faceVerts = (f) => [a, b, c]
faceVerts(he, f) ==
  LET H  == he.halfedges
      h0 == he.faces[f]
      h1 == H[h0].next
      h2 == H[h1].next
  IN  <<H[h2].vert, H[h0].vert, H[h1].vert>>

\* the vertex of triple t that is neither a nor b (the last one otherwise)
Opposite(t, a, b) ==
  IF t[1] # a /\ t[1] # b THEN t[1]
  ELSE IF t[2] # a /\ t[2] # b THEN t[2]
  ELSE t[3]

\* (mutation of FlipWrite: a and b are exchanged in the two new triangles)
FlipWrite_SwapEnds(indices, f0, f1, a, b, c, d) ==
  LET s0 == [indices EXCEPT ![f0 * 3 + 1] = c, ![f0 * 3 + 2] = d,
                            ![f0 * 3 + 3] = a]
  IN  [s0 EXCEPT ![f1 * 3 + 1] = d, ![f1 * 3 + 2] = c, ![f1 * 3 + 3] = b]

\* mm.indices[f0i + 0] = c; ... ; mm.indices[f1i + 2] = a
FlipWrite(indices, f0, f1, a, b, c, d) ==
  LET s0 == [indices EXCEPT ![f0 * 3 + 1] = c, ![f0 * 3 + 2] = d,
                            ![f0 * 3 + 3] = b]
  IN  [s0 EXCEPT ![f1 * 3 + 1] = d, ![f1 * 3 + 2] = c, ![f1 * 3 + 3] = a]

\* the guard against a degenerate flip
DegenerateFlip(a, b, c, d) == c = d \/ c = a \/ c = b \/ d = a \/ d = b

\* (mutation of FlipFailed: the normals are recomputed before the guards)
FlipFailed_Recomputed(m) ==
  [ret |-> FALSE, threw |-> FALSE,
   mm |-> [m EXCEPT !.normals = recomputeNormals(m)]]

\* return false: nothing has been written
FlipFailed(m) == [ret |-> FALSE, threw |-> FALSE, mm |-> m]

\* the value of an expression that has no value
Undefined == [undefined |-> TRUE]

\* function prev(hh, hemesh): the half-edge before hh in its block; the
\* function returns that half-edge itself (the object), not its index
prevObject(he, hIndex) == he.halfedges[prev(hIndex)]

\* H[hPrev] where hPrev is an object: the property key of an object is the
\* string "[object Object]", and an array has no element under that key
ElementAtObject(H, hPrev) == Undefined

\* (mutation of FlipThrew: the call returns false instead of throwing)
FlipThrew_ReturnsFalse(m) == [ret |-> FALSE, threw |-> FALSE, mm |-> m]

\* reading .vert of undefined throws a TypeError: nothing has been written
FlipThrew(m) == [ret |-> TypeError, threw |-> TRUE, mm |-> m]

\* edgeFlip(mm, halfedgeIndex): the returned flag (none when the call threw)
\* and the mesh afterwards
edgeFlip(m, halfedgeIndex) ==
  LET he == buildHalfEdge(m.indices, vertexCount(m))
      H  == he.halfedges
  IN  IF halfedgeIndex < 0 \/ halfedgeIndex >= 3 * (Len(m.indices) \div 3)
      THEN FlipFailed(m)
      ELSE
      LET h == H[halfedgeIndex]
      IN  IF h.twin = -1 THEN FlipFailed(m)
          ELSE
          LET f0 == h.face
              f1 == H[h.twin].face
              hPrev == prevObject(he, halfedgeIndex)
              tail  == ElementAtObject(H, hPrev)
          IN  IF tail = Undefined THEN FlipThrew(m)
              ELSE
              LET a  == tail.vert
                  b  == h.vert
                  c  == Opposite(faceVerts(he, f0), a, b)
                  d  == Opposite(faceVerts(he, f1), a, b)
              IN  IF DegenerateFlip(a, b, c, d) THEN FlipFailed(m)
                  ELSE
                  LET m1 == [m EXCEPT !.indices =
                               FlipWrite(m.indices, f0, f1, a, b, c, d)]
                  IN  [ret |-> TRUE, threw |-> FALSE,
                       mm  |-> [m1 EXCEPT !.normals = recomputeNormals(m1)]]

---------------------------------------------------------------------------
(* edgeSplit *)

\* mx = 0.5 * (ax + bx): exact on the grid of Unit
Midpoint(x, y) == (x + y) \div 2

\* (mutation of SplitFailed: the new vertex is pushed before the id is checked)
SplitFailed_Pushed(m) ==
  [ret |-> -1,
   mm  |-> [m EXCEPT !.positions = @ \o <<0, 0, 0>>,
                     !.normals = @ \o <<Zero, Zero, Zero>>]]

\* (mutation of SplitFailed: the temporary normal is pushed before the id is
\* checked)
SplitFailed_PushedNormal(m) ==
  [ret |-> -1, mm |-> [m EXCEPT !.normals = @ \o <<Zero, Zero, Zero>>]]

\* return -1: nothing has been written
SplitFailed(m) == [ret |-> -1, mm |-> m]

\* (mutation of splitFace: the face is rewritten and no triangle is appended)
splitFace_NoAppend(indices, newVi, f, a_, b_) ==
  LET base == f * 3
      c == Opposite(<<At(indices, base), At(indices, base + 1),
                      At(indices, base + 2)>>, a_, b_)
  IN  [indices EXCEPT ![base + 1] = a_, ![base + 2] = newVi, ![base + 3] = c]

\* (mutation of splitFace: the appended triangle keeps a_ instead of b_)
splitFace_KeepTail(indices, newVi, f, a_, b_) ==
  LET base == f * 3
      c == Opposite(<<At(indices, base), At(indices, base + 1),
                      At(indices, base + 2)>>, a_, b_)
      s == [indices EXCEPT ![base + 1] = a_, ![base + 2] = newVi,
                           ![base + 3] = c]
  IN  s \o <<newVi, a_, c>>

\* (mutation of splitFace: the rewritten face gets the new vertex twice)
splitFace_MidTwice(indices, newVi, f, a_, b_) ==
  LET base == f * 3
      c == Opposite(<<At(indices, base), At(indices, base + 1),
                      At(indices, base + 2)>>, a_, b_)
      s == [indices EXCEPT ![base + 1] = a_, ![base + 2] = newVi,
                           ![base + 3] = newVi]
  IN  s \o <<newVi, b_, c>>

\* (mutation of splitFace: the appended triangle is wound the other way)
splitFace_Reversed(indices, newVi, f, a_, b_) ==
  LET base == f * 3
      c == Opposite(<<At(indices, base), At(indices, base + 1),
                      At(indices, base + 2)>>, a_, b_)
      s == [indices EXCEPT ![base + 1] = a_, ![base + 2] = newVi,
                           ![base + 3] = c]
  IN  s \o <<newVi, c, b_>>

\* const splitFace = (f, a_, b_) => ...
splitFace(indices, newVi, f, a_, b_) ==
  LET base == f * 3
      c == Opposite(<<At(indices, base), At(indices, base + 1),
                      At(indices, base + 2)>>, a_, b_)
      s == [indices EXCEPT ![base + 1] = a_, ![base + 2] = newVi,
                           ![base + 3] = c]
  IN  s \o <<newVi, b_, c>>

\* edgeSplit(mm, halfedgeIndex): the returned index and the mesh afterwards
edgeSplit(m, halfedgeIndex) ==
  LET he == buildHalfEdge(m.indices, vertexCount(m))
      H  == he.halfedges
  IN  IF halfedgeIndex < 0 \/ halfedgeIndex >= 3 * (Len(m.indices) \div 3)
      THEN SplitFailed(m)
      ELSE
      LET h     == H[halfedgeIndex]
          a     == H[prev(halfedgeIndex)].vert
          b     == h.vert
          newVi == Len(m.positions) \div 3
          pos   == m.positions \o
                     << Midpoint(At(m.positions, a * 3), At(m.positions, b * 3)),
                        Midpoint(At(m.positions, a * 3 + 1),
                                 At(m.positions, b * 3 + 1)),
                        Midpoint(At(m.positions, a * 3 + 2),
                                 At(m.positions, b * 3 + 2)) >>
          nrm   == m.normals \o <<Zero, Zero, Zero>>
          s0    == splitFace(m.indices, newVi, h.face, a, b)
          s1    == IF h.twin # -1
                   THEN splitFace(s0, newVi, H[h.twin].face, b, a)
                   ELSE s0
          m1    == [positions |-> pos, normals |-> nrm, indices |-> s1]
      IN  [ret |-> newVi,
           mm  |-> [m1 EXCEPT !.normals = recomputeNormals(m1)]]

---------------------------------------------------------------------------
(* computeValences *)

\* const guard = 10000 (and the literal 10000 of both loops of countBoundary)
guard == 10000

\* One loop of countBoundary: total when the loop is left, entered at
\* iteration i with half-edge h.  A walk that comes back to a half-edge of
\* `seen` other than start repeats for ever, so the loop runs all its
\* remaining guard - i iterations and adds one to total in each.
RECURSIVE BoundaryWalk(_, _, _, _, _, _)
BoundaryWalk(he, start, h, i, total, seen) ==
  IF i >= guard THEN total
  ELSE IF h \in seen THEN total + (guard - i)
  ELSE LET across == he.halfedges[prev(h)].twin
       IN  IF across = -1 THEN total
           ELSE LET h2 == he.halfedges[across].next
                IN  IF h2 = start THEN total
                    ELSE BoundaryWalk(he, start, h2, i + 1, total + 1,
                                      seen \cup {h})

\* function countBoundary(v, he, start)
countBoundary(he, start) ==
  LET total1 == BoundaryWalk(he, start, start, 0, 1, {})
      twin   == he.halfedges[prev(start)].twin
  IN  IF twin # -1
      THEN BoundaryWalk(he, start, he.halfedges[twin].next, 0, total1, {})
      ELSE total1

\* (mutation of RingWalk: the step that closes the ring is not counted)
RECURSIVE RingWalk_MissLast(_, _, _, _, _, _)
RingWalk_MissLast(he, start, h, it, count, seen) ==
  IF it >= guard THEN count
  ELSE IF h \in seen THEN guard
  ELSE LET across == he.halfedges[prev(h)].twin
       IN  IF across = -1 THEN countBoundary(he, start)
           ELSE LET h2 == he.halfedges[across].next
                IN  IF h2 = start THEN count
                    ELSE RingWalk_MissLast(he, start, h2, it + 1, count + 1,
                                           seen \cup {h})

\* The ring walk of computeValences for one vertex: count when the loop is
\* left, entered at iteration it with half-edge h.  As in BoundaryWalk a walk
\* caught in a cycle that misses start ends at the ceiling, with count = guard.
RECURSIVE RingWalk(_, _, _, _, _, _)
RingWalk(he, start, h, it, count, seen) ==
  IF it >= guard THEN count
  ELSE IF h \in seen THEN guard
  ELSE LET across == he.halfedges[prev(h)].twin
       IN  IF across = -1 THEN countBoundary(he, start)
           ELSE LET h2 == he.halfedges[across].next
                IN  IF h2 = start THEN count + 1
                    ELSE RingWalk(he, start, h2, it + 1, count + 1,
                                  seen \cup {h})

\* val[v]: 0 where the vertex has no half-edge (a count is at most
\* 2 * guard + 1, within a Uint16Array element)
computeValences(he) ==
  [v \in DOMAIN he.vertices |->
     IF he.vertices[v] = -1 THEN 0
     ELSE RingWalk(he, he.vertices[v], he.vertices[v], 0, 0, {})]

---------------------------------------------------------------------------
(* buildWireframeIndices *)

\* `${n}`: the decimal digits of n
RECURSIVE Digits(_)
Digits(n) == IF n < 10 THEN <<n>> ELSE Digits(n \div 10) \o <<n % 10>>

\* (mutation of key: the pair is not put in order)
key_Directed(a, b) == Digits(a) \o <<-1>> \o Digits(b)

\* const key = (a, b) => (a < b ? `${a}_${b}` : `${b}_${a}`); the character
\* '_' is written -1
key(a, b) ==
  IF a < b THEN Digits(a) \o <<-1>> \o Digits(b)
  ELSE Digits(b) \o <<-1>> \o Digits(a)

\* (mutation of SetAdd: a new element is put in front)
SetAdd_Front(set, k) ==
  IF \E i \in DOMAIN set : set[i] = k THEN set ELSE <<k>> \o set

\* set.add(k): a Set keeps its elements in the order of their first insertion
SetAdd(set, k) ==
  IF \E i \in DOMAIN set : set[i] = k THEN set ELSE Append(set, k)

\* for (let i = 0; i < tri.length; i += 3) { set.add(...) x 3 }
RECURSIVE WireLoop(_, _, _)
WireLoop(tri, i, set) ==
  IF i >= Len(tri) THEN set
  ELSE LET a == At(tri, i)
           b == At(tri, i + 1)
           c == At(tri, i + 2)
       IN  WireLoop(tri, i + 3,
             SetAdd(SetAdd(SetAdd(set, key(a, b)), key(b, c)), key(c, a)))

\* Number(s) of a string of decimal digits
RECURSIVE Number(_)
Number(s) ==
  IF Len(s) = 0 THEN 0
  ELSE 10 * Number(SubSeq(s, 1, Len(s) - 1)) + s[Len(s)]

\* k.split('_').map(Number)
SplitKey(k) ==
  LET u == CHOOSE i \in DOMAIN k : k[i] = -1
  IN  <<Number(SubSeq(k, 1, u - 1)), Number(SubSeq(k, u + 1, Len(k)))>>

\* for (const k of set) lines.push(x, y)
RECURSIVE Flatten(_, _, _)
Flatten(set, j, lines) ==
  IF j > Len(set) THEN lines
  ELSE Flatten(set, j + 1, lines \o SplitKey(set[j]))

buildWireframeIndices(tri) == Flatten(WireLoop(tri, 0, <<>>), 1, <<>>)

-------------------------------------------------------------------------------------------------------------------------------------------------
(* Meshes the program is given *)

\* a loaded mesh: its positions in units of 1/Unit, the normal (0,0,1) at
\* every vertex as in placeholderQuad(), the index list
Mesh(indices, pos) ==
  [positions |-> [i \in 1 .. Len(pos) |-> Unit * pos[i]],
   normals   |-> [i \in 1 .. Len(pos) |-> IF i % 3 = 0 THEN One ELSE Zero],
   indices   |-> indices]

\* position of vertex v of a mesh read from a file (pairwise distinct, the
\* first four not coplanar)
VertexPos(v) == <<((v + 1) \div 2) % 2, (v \div 2) % 2, v \div 3>>

FilePos(N) == [i \in 1 .. 3 * N |-> VertexPos((i - 1) \div 3)[((i - 1) % 3) + 1]]

\* vertex ids appear in order of first use, 0 first, then 1, ..., as loadOBJ
\* numbers the vertices of a file
FirstUseOrder(s) ==
  \A i \in DOMAIN s :
    \/ s[i] = 0
    \/ \E j \in 1 .. i - 1 : s[j] = s[i] - 1

\* every index list of at most MaxFaces triangles over MaxVerts vertices,
\* degenerate and non-manifold ones included, up to renaming of vertices
IndexLists ==
  {s \in UNION {[1 .. 3 * F -> 0 .. MaxVerts - 1] : F \in 0 .. MaxFaces} :
     FirstUseOrder(s)}

\* placeholderQuad(): two triangles sharing the edge (0,2)
Quad == Mesh(<<0, 1, 2, 0, 2, 3>>,
             <<-1, -1, 0, 1, -1, 0, 1, 1, 0, -1, 1, 0>>)

\* debugCube(), with the unit of length halved
Cube == Mesh(<<0, 1, 2, 0, 2, 3, 4, 6, 5, 4, 7, 6, 0, 4, 5, 0, 5, 1,
               3, 2, 6, 3, 6, 7, 0, 3, 7, 0, 7, 4, 1, 5, 6, 1, 6, 2>>,
             <<-1, -1, -1, 1, -1, -1, 1, 1, -1, -1, 1, -1,
               -1, -1, 1, 1, -1, 1, 1, 1, 1, -1, 1, 1>>)

\* three triangles around vertex 0, open along 1-2-3
ConeIndices == <<0, 1, 2, 1, 0, 3, 0, 2, 3>>
Cone == Mesh(ConeIndices, FilePos(4))
\* the closed tetrahedron
Tetra == Mesh(ConeIndices \o <<1, 3, 2>>, FilePos(4))
\* two triangles glued along all three edges
Pillow == Mesh(<<0, 1, 2, 0, 2, 1>>, FilePos(3))
\* a triangle with a repeated vertex
Sliver == Mesh(<<0, 0, 1>>, FilePos(3))
\* the same triangle twice, and three triangles on the edge (0,1)
Doubled == Mesh(<<0, 1, 2, 0, 1, 2>>, FilePos(3))
Book == Mesh(<<0, 1, 2, 1, 0, 3, 1, 0, 4>>, FilePos(5))
\* a strip of three triangles: 0-1-2, 2-1-3, 2-3-4
Strip == Mesh(<<0, 1, 2, 2, 1, 3, 2, 3, 4>>, FilePos(5))

\* two pillows that meet in vertex 0 only: closed, but pinched at 0
Pinched == Mesh(<<0, 1, 2, 0, 2, 1, 0, 3, 4, 0, 4, 3>>, FilePos(5))

\* the meshes that are edited
SampleMeshes == {Quad, Cone, Tetra, Pillow, Sliver, Doubled, Book, Strip}

\* every list of at most MaxLen numbers, each at most MaxVerts
RawLists == UNION {[1 .. n -> 0 .. MaxVerts] : n \in 0 .. MaxLen}

\* what buildHalfEdge may be handed by a caller that checks nothing: any
\* list, with any number of vertices up to MaxVerts
RawInputs == {Mesh(s, FilePos(N)) : s \in RawLists, N \in 0 .. MaxVerts}

\* the inputs of a single call
CallInputs ==
  {Mesh(s, FilePos(MaxVerts)) : s \in IndexLists} \cup SampleMeshes \cup {Cube, Pinched}

---------------------------------------------------------------------------
(* The state machine *)

\* null, where the source keeps a number or null
Null == -1

\* new Map<string, number>(): the entries <<key, value>> of a Map, in the
\* order in which their keys were first set
EmptyMap == <<>>

\* map.has(k), map.get(k) for a key the map has
MapHas(map, k) == \E i \in DOMAIN map : map[i][1] = k
MapGet(map, k) == map[CHOOSE i \in DOMAIN map : map[i][1] = k][2]

NumHalfEdges == 3 * (Len(mm.indices) \div 3)

\* half-edge ids a caller may pass: every valid id, and one on either side
Args == -1 .. NumHalfEdges

\* last: the latest call, its argument, its result (or that it threw) and the
\* mesh it was given;
\* earlier: the call before it
Loaded == [op |-> "load", h |-> -1, ret |-> -1, threw |-> FALSE, pre |-> mm]

\* the page before a mesh is made editable: nothing to pick, nothing selected
NoUI == [selectedEdge |-> -1, edgePairs |-> <<>>, edgeToHalfedge |-> EmptyMap,
         clicked |-> <<>>, pressedOn |-> <<>>]

\* no IFC file has been chosen: let openIfcModelID = null
NoIfc == [openIfcModelID |-> Null, open |-> {}, handlers |-> <<>>, nextID |-> 0]

Init ==
  /\ mm \in SampleMeshes
  /\ last = Loaded
  /\ earlier = Loaded
  /\ steps = 0
  /\ ui = NoUI
  /\ ifc = NoIfc

InitCall ==
  /\ mm \in CallInputs
  /\ last = Loaded
  /\ earlier = Loaded
  /\ steps = 0
  /\ ui = NoUI
  /\ ifc = NoIfc

\* a call edgeFlip(mm, h)
DoFlip(h) ==
  /\ LET r == edgeFlip(mm, h)
     IN  /\ mm' = r.mm
         /\ last' = [op |-> "flip", h |-> h, ret |-> r.ret,
                     threw |-> r.threw, pre |-> mm]
  /\ earlier' = last
  /\ steps' = steps + 1
  /\ UNCHANGED <<ui, ifc>>

\* a call edgeSplit(mm, h)
DoSplit(h) ==
  /\ LET r == edgeSplit(mm, h)
     IN  /\ mm' = r.mm
         /\ last' = [op |-> "split", h |-> h, ret |-> r.ret,
                     threw |-> FALSE, pre |-> mm]
  /\ earlier' = last
  /\ steps' = steps + 1
  /\ UNCHANGED <<ui, ifc>>

\* the Flip and Split buttons, pressed at most MaxOps times in all
Flip(h) == steps < MaxOps /\ DoFlip(h)

Split(h) == steps < MaxOps /\ DoSplit(h)

Next ==
  \/ \E h \in Args : Flip(h)
  \/ \E h \in Args : Split(h)

\* a sample mesh under a sequence of edits
Spec == Init /\ [][Next]_vars

\* one call of each function on a freshly loaded mesh
FlipCall(h) == last.op = "load" /\ DoFlip(h)

SplitCall(h) == last.op = "load" /\ DoSplit(h)

\* const he = buildHalfEdge(mesh.indices, mesh.positions.length / 3)
Build ==
  /\ last.op = "load"
  /\ last' = [op |-> "build", h |-> -1,
              ret |-> IF Throws(mm.indices, vertexCount(mm)) THEN TypeError
                      ELSE buildHalfEdge(mm.indices, vertexCount(mm)),
              threw |-> Throws(mm.indices, vertexCount(mm)), pre |-> mm]
  /\ earlier' = last
  /\ UNCHANGED <<mm, steps, ui, ifc>>

\* computeValences(he)
Valences ==
  /\ last.op = "build"
  /\ last' = [op |-> "valences", h |-> -1,
              ret |-> computeValences(last.ret), threw |-> FALSE, pre |-> mm]
  /\ earlier' = last
  /\ UNCHANGED <<mm, steps, ui, ifc>>

\* const lines = buildWireframeIndices(mesh.indices)
Wireframe ==
  /\ last.op = "load"
  /\ last' = [op |-> "wireframe", h |-> -1,
              ret |-> buildWireframeIndices(mm.indices), threw |-> FALSE,
              pre |-> mm]
  /\ earlier' = last
  /\ UNCHANGED <<mm, steps, ui, ifc>>

NextCall ==
  \/ \E h \in Args : FlipCall(h)
  \/ \E h \in Args : SplitCall(h)
  \/ Build
  \/ Valences
  \/ Wireframe

SpecCall == InitCall /\ [][NextCall]_vars

InitRaw ==
  /\ mm \in RawInputs
  /\ last = Loaded
  /\ earlier = Loaded
  /\ steps = 0
  /\ ui = NoUI
  /\ ifc = NoIfc

NextRaw == Build

\* buildHalfEdge on input that nothing has checked
SpecRaw == InitRaw /\ [][NextRaw]_vars

---------------------------------------------------------------------------
(* The editing page: picking an edge, the Flip and Split buttons (main.ts) *)

\* const ekey = (a, b) => a < b ? `${a}_${b}` : `${b}_${a}`
ekey(a, b) == key(a, b)

\* edgeToHalfedge.set(k, h)
MapSet(map, k, h) ==
  IF MapHas(map, k)
  THEN [i \in DOMAIN map |-> IF map[i][1] = k THEN <<k, h>> ELSE map[i]]
  ELSE Append(map, <<k, h>>)

\* for (let h = 0; h < he.halfedges.length; h++) edgeToHalfedge.set(ekey(tail, head), h)
RECURSIVE EdgeMapOfUI(_, _, _)
EdgeMapOfUI(he, h, map) ==
  IF h >= Cardinality(DOMAIN he.halfedges) THEN map
  ELSE LET tail == he.halfedges[prev(h)].vert
           head == he.halfedges[h].vert
       IN  EdgeMapOfUI(he, h + 1, MapSet(map, ekey(tail, head), h))

\* rebuildEdgesAndMap(mesh): edgePairs and edgeToHalfedge are rebuilt,
\* selectedEdge is not written; u is the ui record before the call
rebuildEdgesAndMap(u, m) ==
  [u EXCEPT !.edgePairs = buildWireframeIndices(m.indices),
            !.edgeToHalfedge =
               EdgeMapOfUI(buildHalfEdge(m.indices, vertexCount(m)), 0, EmptyMap)]

\* reuploadFromEditable(): the mesh and the ui record afterwards
reuploadFromEditable(u, m) ==
  LET m1 == [m EXCEPT !.normals = recomputeNormals(m)]
  IN  [mm |-> m1, ui |-> rebuildEdgesAndMap(u, m1)]

\* the meshes that are loaded into the editing page
UIMeshes == {Quad, Strip, Tetra}

\* the OBJ file has been loaded: editable is a copy of the mesh, the edge
\* data is built, nothing is selected
InitUI ==
  /\ mm \in UIMeshes
  /\ last = Loaded
  /\ earlier = Loaded
  /\ steps = 0
  /\ ui = rebuildEdgesAndMap(NoUI, mm)
  /\ ifc = NoIfc

NumEdges == Len(ui.edgePairs) \div 2

\* a click on the canvas; id is what decID reads under the mouse.  clicked
\* and pressedOn are not variables of the page: clicked records the vertex
\* pair the click selected (none when the click cleared the selection), and
\* a press that calls an operator notes in pressedOn the pair clicked most
\* recently
CanvasClick(id) ==
  /\ IF id >= 0 /\ id < NumEdges
     THEN ui' = [ui EXCEPT !.selectedEdge = id,
                           !.clicked = <<At(ui.edgePairs, id * 2),
                                         At(ui.edgePairs, id * 2 + 1)>>]
     ELSE ui' = [ui EXCEPT !.selectedEdge = -1, !.clicked = <<>>]
  /\ UNCHANGED <<mm, last, earlier, steps, ifc>>

\* the press called an operator while u.clicked was the pair last clicked
Noted(u) == [u EXCEPT !.pressedOn = u.clicked]

\* alert(...); return: the press has called no operator
Alerted == [op |-> "alert", h |-> -1, ret |-> -1, threw |-> FALSE, pre |-> mm]

\* the Flip button
FlipPress ==
  /\ steps < MaxOps
  /\ steps' = steps + 1
  /\ earlier' = last
  /\ ifc' = ifc
  /\ IF ui.selectedEdge < 0
     THEN last' = Alerted /\ UNCHANGED <<mm, ui>>
     ELSE
     LET a == At(ui.edgePairs, ui.selectedEdge * 2)
         b == At(ui.edgePairs, ui.selectedEdge * 2 + 1)
     IN  IF ~ MapHas(ui.edgeToHalfedge, ekey(a, b))
         THEN last' = Alerted /\ UNCHANGED <<mm, ui>>
         ELSE
         \E h \in {MapGet(ui.edgeToHalfedge, ekey(a, b))} :
         \E r \in {edgeFlip(mm, h)} :
             /\ last' = [op |-> "pressFlip", h |-> h, ret |-> r.ret,
                         threw |-> r.threw, pre |-> mm]
             /\ IF r.threw \/ ~ r.ret
                THEN mm' = mm /\ ui' = Noted(ui)
                ELSE \E up \in {reuploadFromEditable(ui, r.mm)} :
                       mm' = up.mm /\ ui' = Noted(up.ui)

\* the Split button
SplitPress ==
  /\ steps < MaxOps
  /\ steps' = steps + 1
  /\ earlier' = last
  /\ ifc' = ifc
  /\ IF ui.selectedEdge < 0
     THEN last' = Alerted /\ UNCHANGED <<mm, ui>>
     ELSE
     LET a == At(ui.edgePairs, ui.selectedEdge * 2)
         b == At(ui.edgePairs, ui.selectedEdge * 2 + 1)
     IN  IF ~ MapHas(ui.edgeToHalfedge, ekey(a, b))
         THEN last' = Alerted /\ UNCHANGED <<mm, ui>>
         ELSE
         \E h \in {MapGet(ui.edgeToHalfedge, ekey(a, b))} :
         \E r \in {edgeSplit(mm, h)} :
             /\ last' = [op |-> "pressSplit", h |-> h, ret |-> r.ret,
                         threw |-> FALSE, pre |-> mm]
             /\ IF r.ret < 0
                THEN mm' = mm /\ ui' = Noted(ui)
                ELSE \E up \in {reuploadFromEditable(ui, r.mm)} :
                       mm' = up.mm /\ ui' = Noted(up.ui)

NextUI ==
  \/ \E id \in 0 .. NumEdges : CanvasClick(id)
  \/ FlipPress
  \/ SplitPress

\* clicks and button presses on a loaded mesh
SpecUI == InitUI /\ [][NextUI]_vars

---------------------------------------------------------------------------
(* The IFC file input (change handler of ifcInput, loaders/ifc.ts) *)

\* ifc.openIfcModelID: the variable of that name, Null or a model id;
\* ifc.open: the models that api.OpenModel has opened and api.CloseModel has
\* not closed; ifc.handlers: one entry per change event, with the point the
\* handler has reached and the model id its loadIFC has obtained;
\* ifc.nextID: the id the next OpenModel returns

\* closeIFC(modelID): ifcApi.CloseModel(modelID)
closeIFC(open, modelID) == open \ {modelID}

\* a file is chosen: the handler runs up to `await loadIFC(file)`:
\* if (openIfcModelID !== null) { closeIFC(openIfcModelID); openIfcModelID = null; }
IfcChange ==
  /\ Len(ifc.handlers) < MaxLoads
  /\ ifc' = [ifc EXCEPT
        !.open = IF ifc.openIfcModelID # Null
                 THEN closeIFC(ifc.open, ifc.openIfcModelID) ELSE @,
        !.openIfcModelID = Null,
        !.handlers = Append(@, [pc |-> "await", modelID |-> Null])]
  /\ UNCHANGED <<mm, last, earlier, steps, ui>>

\* inside loadIFC, for the handler of the k-th change event:
\* const modelID = await openModelFromFile(file), which returns api.OpenModel(data)
IfcOpenModel(k) ==
  /\ ifc.handlers[k].pc = "await"
  /\ ifc' = [ifc EXCEPT
        !.open = @ \cup {ifc.nextID},
        !.nextID = @ + 1,
        !.handlers[k] = [pc |-> "opened", modelID |-> ifc.nextID]]
  /\ UNCHANGED <<mm, last, earlier, steps, ui>>

\* loadIFC rejects before a model is open (the WASM does not load, the file
\* cannot be read): the handler ends in its catch block
IfcFail(k) ==
  /\ ifc.handlers[k].pc = "await"
  /\ ifc' = [ifc EXCEPT !.handlers[k].pc = "done"]
  /\ UNCHANGED <<mm, last, earlier, steps, ui>>

\* the handler resumes after the await: openIfcModelID = modelID
IfcResume(k) ==
  /\ ifc.handlers[k].pc = "opened"
  /\ ifc' = [ifc EXCEPT
        !.openIfcModelID = ifc.handlers[k].modelID,
        !.handlers[k].pc = "done"]
  /\ UNCHANGED <<mm, last, earlier, steps, ui>>

\* the page shows the placeholder quad
InitIFC ==
  /\ mm = Quad
  /\ last = Loaded
  /\ earlier = Loaded
  /\ steps = 0
  /\ ui = NoUI
  /\ ifc = NoIfc

NextIFC ==
  \/ IfcChange
  \/ \E k \in DOMAIN ifc.handlers : IfcOpenModel(k)
  \/ \E k \in DOMAIN ifc.handlers : IfcFail(k)
  \/ \E k \in DOMAIN ifc.handlers : IfcResume(k)

\* IFC files chosen one after another, each load finishing at any time
SpecIFC == InitIFC /\ [][NextIFC]_vars

---------------------------------------------------------------------------
(* The mesh as the specification speaks of it, read off the index list *)

HalfEdgeIds(I) == 0 .. 3 * (Len(I) \div 3) - 1
FaceIds(I) == 0 .. (Len(I) \div 3) - 1

\* half-edge 3f+k runs from the k-th vertex of triangle f to the next one
TailOf(I, h) == At(I, h)
HeadOf(I, h) == At(I, 3 * (h \div 3) + ((h + 1) % 3))
\* the vertex of h's triangle that follows the head
Third(I, h) == At(I, 3 * (h \div 3) + ((h + 2) % 3))

\* the triple of triangle f, and its set of vertices
Triple(I, f) == <<At(I, 3 * f), At(I, 3 * f + 1), At(I, 3 * f + 2)>>
VertSet(I, f) == {At(I, 3 * f), At(I, 3 * f + 1), At(I, 3 * f + 2)}

\* the half-edges that run from u to w
Running(I, u, w) == {g \in HalfEdgeIds(I) : TailOf(I, g) = u /\ HeadOf(I, g) = w}

Highest(S) == CHOOSE x \in S : \A y \in S : y <= x

\* every directed edge occurs in at most one triangle
DirectedOnce(I) ==
  \A g, h \in HalfEdgeIds(I) :
    (TailOf(I, g) = TailOf(I, h) /\ HeadOf(I, g) = HeadOf(I, h)) => g = h

\* no triangle has a repeated vertex
NonDegenerate(I) == \A f \in FaceIds(I) : Cardinality(VertSet(I, f)) = 3

\* every half-edge has an opposite one
Closed(I) ==
  \A h \in HalfEdgeIds(I) : Running(I, HeadOf(I, h), TailOf(I, h)) # {}

FacesAt(I, v) == {f \in FaceIds(I) : v \in VertSet(I, f)}

\* the faces at v reached from those of S across edges that end in v
RECURSIVE Fan(_, _, _)
Fan(I, v, S) ==
  LET S2 == S \cup {g \in FacesAt(I, v) :
                      \E f \in S : Cardinality(VertSet(I, f) \cap VertSet(I, g)) >= 2}
  IN  IF S2 = S THEN S ELSE Fan(I, v, S2)

\* the triangles at every vertex form one fan
OneFan(I) ==
  \A v \in UNION {VertSet(I, f) : f \in FaceIds(I)} :
    \A f \in FacesAt(I, v) : Fan(I, v, {f}) = FacesAt(I, v)

\* a closed, consistently oriented manifold triangle mesh
ClosedManifold(I) ==
  /\ Len(I) > 0
  /\ NonDegenerate(I)
  /\ DirectedOnce(I)
  /\ Closed(I)
  /\ OneFan(I)

\* the undirected edges of the mesh
Edges(I) == {{TailOf(I, h), HeadOf(I, h)} : h \in HalfEdgeIds(I)}

RECURSIVE SumTo(_, _)
SumTo(val, n) == IF n < 0 THEN 0 ELSE val[n] + SumTo(val, n - 1)
\* the sum of an array indexed 0 .. N-1
Sum(val) == SumTo(val, Cardinality(DOMAIN val) - 1)

\* the call recorded in r was edgeFlip, and it returned flag
FlipReturned(r, flag) == r.op = "flip" /\ ~ r.threw /\ r.ret = flag

---------------------------------------------------------------------------
(* C1: twin symmetry of buildHalfEdge *)

TwinSymmetric(G) ==
  \A h \in DOMAIN G.halfedges :
    G.halfedges[h].twin # -1 => G.halfedges[G.halfedges[h].twin].twin = h

\* C1 as stated: for every index list given to buildHalfEdge, with no
\* restriction on the mesh, every half-edge h with twin(h) = h' # -1 has
\* twin(h') = h.
C1_TwinSymmetryAnyList == last.op = "build" => TwinSymmetric(last.ret)

\* C1 amended: for every index list, a half-edge h with twin(h) = h' # -1 has
\* twin(h') = the highest-index half-edge that runs from h's tail to h's head;
\* so twin(h') = h exactly when no half-edge after h repeats h's directed edge
\* (always, when every directed edge occurs in one triangle only).
C1_TwinSymmetryUpToRepeats ==
  last.op = "build" =>
    LET G == last.ret
        I == mm.indices
    IN  \A h \in DOMAIN G.halfedges :
          LET t == G.halfedges[h].twin
          IN  t # -1 =>
                /\ G.halfedges[t].twin = Highest(Running(I, TailOf(I, h), HeadOf(I, h)))
                /\ (G.halfedges[t].twin = h <=>
                      \A g \in Running(I, TailOf(I, h), HeadOf(I, h)) : g <= h)

\* a graph was built in which a half-edge with a twin is repeated later on
C1_Witness ==
  /\ last.op = "build"
  /\ \E h \in DOMAIN last.ret.halfedges :
       /\ last.ret.halfedges[h].twin # -1
       /\ \E g \in Running(mm.indices, TailOf(mm.indices, h), HeadOf(mm.indices, h)) :
            g > h

---------------------------------------------------------------------------
(* C2: the valence sum of a closed mesh *)

\* C2: for a closed, consistently oriented manifold triangle mesh with F
\* faces and E undirected edges, the valences computed from the graph of
\* buildHalfEdge sum to 2E, and E = 3F/2.
C2_ValenceSum ==
  (last.op = "valences" /\ ClosedManifold(mm.indices)) =>
    /\ Sum(last.ret) = 2 * Cardinality(Edges(mm.indices))
    /\ 2 * Cardinality(Edges(mm.indices)) = Len(mm.indices)

\* the valences of a closed manifold mesh of at least four faces were computed
C2_Witness ==
  /\ last.op = "valences"
  /\ ClosedManifold(mm.indices)
  /\ Len(mm.indices) >= 12

---------------------------------------------------------------------------
(* C3: what a successful edgeFlip writes *)

\* the twin of h as the graph defines it: the last half-edge running back
TwinHE(I, h) == Highest(Running(I, HeadOf(I, h), TailOf(I, h)))

\* C3: when edgeFlip(mm, h) returns true for h: a->b in face f0 with third
\* vertex c, whose twin lies in face f1 with third vertex d, the index list
\* then holds (c,d,b) in f0 and (d,c,a) in f1, every other triangle is as it
\* was, the list has its old length and the positions are unchanged.
C3_FlipRewrite ==
  FlipReturned(last, TRUE) =>
    LET I  == last.pre.indices
        h  == last.h
        t  == TwinHE(I, h)
        a  == TailOf(I, h)
        b  == HeadOf(I, h)
        c  == Third(I, h)
        d  == Third(I, t)
        f0 == h \div 3
        f1 == t \div 3
    IN  /\ Len(mm.indices) = Len(I)
        /\ Triple(mm.indices, f0) = <<c, d, b>>
        /\ Triple(mm.indices, f1) = <<d, c, a>>
        /\ \A f \in FaceIds(I) \ {f0, f1} : Triple(mm.indices, f) = Triple(I, f)
        /\ mm.positions = last.pre.positions

---------------------------------------------------------------------------
(* C4: what edgeSplit writes *)

HasTwin(I, h) == Running(I, HeadOf(I, h), TailOf(I, h)) # {}

\* the position of vertex v, as a triple
Pos(m, v) == <<At(m.positions, 3 * v), At(m.positions, 3 * v + 1),
               At(m.positions, 3 * v + 2)>>

\* the mesh "now" is the mesh "was" split at h: a->b as the claim describes
SplitAsDescribed(was, now, h, ret) ==
  LET I  == was.indices
      J  == now.indices
      F  == Len(I) \div 3
      a  == TailOf(I, h)
      b  == HeadOf(I, h)
      c  == Third(I, h)
      f0 == h \div 3
      m  == ret
  IN  /\ m = Len(was.positions) \div 3
      /\ Len(now.positions) = Len(was.positions) + 3
      /\ SubSeq(now.positions, 1, Len(was.positions)) = was.positions
      /\ \A k \in 1 .. 3 : 2 * Pos(now, m)[k] = Pos(was, a)[k] + Pos(was, b)[k]
      /\ Triple(J, f0) = <<a, m, c>>
      /\ Triple(J, F) = <<m, b, c>>
      /\ IF HasTwin(I, h)
         THEN LET t  == TwinHE(I, h)
                  d  == Third(I, t)
                  f1 == t \div 3
              IN  /\ Len(J) = Len(I) + 6
                  /\ Triple(J, f1) = <<b, m, d>>
                  /\ Triple(J, F + 1) = <<m, a, d>>
                  /\ \A f \in FaceIds(I) \ {f0, f1} : Triple(J, f) = Triple(I, f)
         ELSE /\ Len(J) = Len(I) + 3
              /\ \A f \in FaceIds(I) \ {f0} : Triple(J, f) = Triple(I, f)

ValidSplit == last.op = "split" /\ last.h \in HalfEdgeIds(last.pre.indices)

\* the quad of C4: splitting the edge (0,2) of (0,1,2),(0,2,3) gives vertex 4
\* at the midpoint of vertices 0 and 2, and four triangles
QuadSplit ==
  (ValidSplit /\ last.pre = Quad
     /\ {TailOf(Quad.indices, last.h), HeadOf(Quad.indices, last.h)} = {0, 2}) =>
    /\ last.ret = 4
    /\ \A k \in 1 .. 3 : 2 * Pos(mm, 4)[k] = Pos(Quad, 0)[k] + Pos(Quad, 2)[k]
    /\ Len(mm.indices) = 12

\* C4 as stated: edgeSplit(mm, h) on a valid half-edge h: a->b whose face is
\* (a,b,c) returns the previous vertex count m, appends the midpoint of a and
\* b as the position of m, rewrites h's face to (a,m,c) and appends (m,b,c);
\* if h has a twin, in face (b,a,d), that face becomes (b,m,d) and (m,a,d) is
\* appended; all other triangles and all old positions are unchanged.  On the
\* quad, splitting (0,2) gives vertex 4 at the midpoint and four triangles.
C4_SplitAsStated ==
  /\ ValidSplit => SplitAsDescribed(last.pre, mm, last.h, last.ret)
  /\ QuadSplit

\* h's face, and the face of h's twin if there is one, has three distinct vertices
SplitFacesProper(I, h) ==
  /\ Cardinality(VertSet(I, h \div 3)) = 3
  /\ HasTwin(I, h) => Cardinality(VertSet(I, TwinHE(I, h) \div 3)) = 3

\* C4 amended: the same, for a half-edge h whose face, and whose twin's face
\* if it has a twin, has three distinct vertices (as the quad's faces have).
C4_SplitRewrite ==
  /\ (ValidSplit /\ SplitFacesProper(last.pre.indices, last.h)) =>
       SplitAsDescribed(last.pre, mm, last.h, last.ret)
  /\ QuadSplit

\* the quad was split on its diagonal
C4_Witness ==
  /\ ValidSplit
  /\ last.pre = Quad
  /\ last.h = 2
  /\ SplitFacesProper(Quad.indices, 2)

---------------------------------------------------------------------------
(* C5: how much edgeSplit adds *)

\* C5: edgeSplit(mm, h) with a valid half-edge id adds exactly one vertex,
\* and exactly two triangles when h has a twin, exactly one when h is a
\* boundary half-edge; no triangle is removed.
C5_SplitGrowth ==
  ValidSplit =>
    LET I == last.pre.indices
    IN  /\ Len(mm.positions) \div 3 = Len(last.pre.positions) \div 3 + 1
        /\ Len(mm.indices) \div 3 =
             Len(I) \div 3 + (IF HasTwin(I, last.h) THEN 2 ELSE 1)
        /\ Len(mm.indices) % 3 = 0
        /\ \A f \in FaceIds(I) :
             \/ Triple(mm.indices, f) = Triple(I, f)
             \/ f = last.h \div 3
             \/ HasTwin(I, last.h) /\ f = TwinHE(I, last.h) \div 3

\* a boundary half-edge of a mesh of two triangles was split
C5_Witness ==
  /\ ValidSplit
  /\ ~ HasTwin(last.pre.indices, last.h)
  /\ Len(last.pre.indices) = 6
  /\ Len(mm.indices) = 9

---------------------------------------------------------------------------
(* C6: flipping back *)

\* the first of two flips in a row succeeded
FlippedThenFlip ==
  /\ FlipReturned(earlier, TRUE)
  /\ last.op = "flip"

\* C6: when edgeFlip succeeds on a half-edge of (a,b) and makes the edge
\* (c,d), a second edgeFlip on a half-edge of the new edge (c,d) (the first
\* half-edge of either rewritten face) succeeds, and the two faces have the
\* vertex sets {a,b,c} and {a,b,d} again.
C6_FlipBack ==
  LET I  == earlier.pre.indices
      h  == earlier.h
      f0 == h \div 3
      f1 == TwinHE(I, h) \div 3
  IN  (FlippedThenFlip /\ last.h \in {3 * f0, 3 * f1}) =>
        /\ FlipReturned(last, TRUE)
        /\ {VertSet(mm.indices, f0), VertSet(mm.indices, f1)} =
             {VertSet(I, f0), VertSet(I, f1)}

---------------------------------------------------------------------------
(* C7, C8: rejected calls *)

\* C7: edgeFlip with a valid half-edge id whose twin is -1 returns false and
\* leaves positions, indices and normals as they were.
C7_BoundaryFlipRejected ==
  (/\ last.op = "flip"
   /\ last.h \in HalfEdgeIds(last.pre.indices)
   /\ ~ HasTwin(last.pre.indices, last.h)) =>
    (FlipReturned(last, FALSE) /\ mm = last.pre)

\* edgeFlip was called on a boundary half-edge of a mesh with triangles of
\* non-zero area (whose normals would not recompute to zero)
C7_Witness ==
  /\ last.op = "flip"
  /\ last.pre = Quad
  /\ last.h = 0
  /\ ~ HasTwin(Quad.indices, 0)

\* C8: for a half-edge id that is negative or >= 3F, edgeFlip returns false
\* and edgeSplit returns -1, and positions, normals and indices are left
\* unchanged (edgeSplit appends no vertex before it rejects).
C8_InvalidIdRejected ==
  (last.op \in {"flip", "split"} /\ last.h \notin HalfEdgeIds(last.pre.indices)) =>
    /\ mm = last.pre
    /\ last.op = "flip" => FlipReturned(last, FALSE)
    /\ last.op = "split" => last.ret = -1

\* edgeSplit was called with the id 3F on a mesh that has triangles
C8_Witness ==
  /\ last.op = "split"
  /\ Len(last.pre.indices) > 0
  /\ last.h = Len(last.pre.indices)

---------------------------------------------------------------------------
(* C9: flips that duplicate a triangle *)

\* no two triangles have the same set of vertices
NoDuplicateTriangle(I) ==
  \A f, g \in FaceIds(I) : VertSet(I, f) = VertSet(I, g) => f = g

\* flipping h would write a triangle on the vertices of another triangle
WouldDuplicate(I, h) ==
  LET t  == TwinHE(I, h)
      a  == TailOf(I, h)
      b  == HeadOf(I, h)
      c  == Third(I, h)
      d  == Third(I, t)
  IN  \E f \in FaceIds(I) \ {h \div 3, t \div 3} :
        VertSet(I, f) \in {{c, d, b}, {d, c, a}}

\* C9: edgeFlip returns false and changes nothing whenever the flip would
\* create a duplicate triangle; so if no two triangles share a vertex set
\* before a call of edgeFlip, none do after it.
C9_NoDuplicateFlip ==
  last.op = "flip" =>
    /\ (/\ last.h \in HalfEdgeIds(last.pre.indices)
        /\ HasTwin(last.pre.indices, last.h)
        /\ WouldDuplicate(last.pre.indices, last.h)) =>
         (FlipReturned(last, FALSE) /\ mm = last.pre)
    /\ NoDuplicateTriangle(last.pre.indices) => NoDuplicateTriangle(mm.indices)

---------------------------------------------------------------------------
(* C10: the quad *)

\* the rotations of the triples of an index list of two triangles
Rotations(t) == {t, <<t[2], t[3], t[1]>>, <<t[3], t[1], t[2]>>}
TrianglesUpToRotation(I) == {Rotations(Triple(I, f)) : f \in FaceIds(I)}

QuadDiagonalFlip ==
  /\ last.op = "flip"
  /\ last.pre = Quad
  /\ last.h \in HalfEdgeIds(Quad.indices)
  /\ {TailOf(Quad.indices, last.h), HeadOf(Quad.indices, last.h)} = {0, 2}

\* after the flip, edgeFlip on a half-edge of (0,1), (1,2), (2,3), (3,0)
\* returns false
QuadRimRejected ==
  (/\ earlier.op = "flip"
   /\ earlier.pre = Quad
   /\ earlier.h \in HalfEdgeIds(Quad.indices)
   /\ {TailOf(Quad.indices, earlier.h), HeadOf(Quad.indices, earlier.h)} = {0, 2}
   /\ last.op = "flip"
   /\ last.h \in HalfEdgeIds(last.pre.indices)
   /\ {TailOf(last.pre.indices, last.h), HeadOf(last.pre.indices, last.h)}
        \in {{0, 1}, {1, 2}, {2, 3}, {3, 0}}) =>
    FlipReturned(last, FALSE)

\* C10: on the quad (0,1,2),(0,2,3), edgeFlip on a half-edge of the edge
\* (0,2) returns true and leaves the triangles (1,3,2) and (3,1,0), up to
\* cyclic rotation; afterwards edgeFlip on the rim edges returns false.
C10_QuadFlipAsStated ==
  /\ QuadDiagonalFlip =>
       /\ FlipReturned(last, TRUE)
       /\ TrianglesUpToRotation(mm.indices) =
            {Rotations(<<1, 3, 2>>), Rotations(<<3, 1, 0>>)}
  /\ QuadRimRejected

---------------------------------------------------------------------------
(* C11: the wireframe of an index list *)

\* the pairs of a flat list of pairs
Pairs(lines) == {<<lines[2 * j - 1], lines[2 * j]>> : j \in 1 .. Len(lines) \div 2}

\* C11: for every triangle index list, the number of pairs returned by
\* buildWireframeIndices equals the number of distinct undirected vertex
\* pairs {u,v} that are an edge of some triangle, and every returned pair is
\* an edge of at least one triangle.
C11_WireframeEdges ==
  last.op = "wireframe" =>
    /\ Len(last.ret) % 2 = 0
    /\ Len(last.ret) \div 2 = Cardinality(Edges(mm.indices))
    /\ \A j \in 1 .. Len(last.ret) \div 2 :
         {last.ret[2 * j - 1], last.ret[2 * j]} \in Edges(mm.indices)

\* the wireframe of a mesh in which an edge is met from both sides
C11_Witness ==
  /\ last.op = "wireframe"
  /\ \E g, h \in HalfEdgeIds(mm.indices) :
       /\ g \div 3 # h \div 3
       /\ TailOf(mm.indices, g) = HeadOf(mm.indices, h)
       /\ HeadOf(mm.indices, g) = TailOf(mm.indices, h)
       /\ TailOf(mm.indices, g) # HeadOf(mm.indices, g)
  /\ Len(last.ret) >= 10

---------------------------------------------------------------------------
(* C12, C18, C19, C20: the graph that buildHalfEdge returns *)

\* the half-edge before h in its block, and the block of face f
BlockPrev(h) == 3 * (h \div 3) + ((h + 2) % 3)
Block(f) == {3 * f, 3 * f + 1, 3 * f + 2}

Built == last.op = "build"

\* C12: for every half-edge h of a graph returned by buildHalfEdge,
\* next(next(next(h))) = h, face(h) = floor(h/3), and h, next(h),
\* next(next(h)) are exactly the indices 3f, 3f+1, 3f+2 of its block f, with
\* faces[f].halfedge inside that block.
C12_FaceCycle ==
  Built =>
    LET G == last.ret
        H == G.halfedges
        F == Len(mm.indices) \div 3
    IN  /\ DOMAIN H = 0 .. 3 * F - 1
        /\ DOMAIN G.faces = 0 .. F - 1
        /\ \A h \in DOMAIN H :
             /\ H[h].next \in DOMAIN H
             /\ H[H[h].next].next \in DOMAIN H
             /\ H[H[H[h].next].next].next = h
             /\ H[h].face = h \div 3
             /\ {h, H[h].next, H[H[h].next].next} = Block(h \div 3)
        /\ \A f \in DOMAIN G.faces : G.faces[f] \in Block(f)

\* a graph of at least two faces was built
C12_Witness ==
  /\ Built
  /\ Len(mm.indices) >= 6
  /\ 3 \in DOMAIN last.ret.halfedges
  /\ last.ret.halfedges[5].next = 3

\* C18: in a graph returned by buildHalfEdge, for every half-edge h with
\* tail t and head v: twin(h) = -1 exactly when no half-edge of any face runs
\* from v to t; otherwise twin(h) is the highest-index half-edge running from
\* v to t.
C18_TwinTarget ==
  Built =>
    LET H == last.ret.halfedges
        I == mm.indices
    IN  \A h \in DOMAIN H :
          LET v == H[h].vert
              t == H[BlockPrev(h)].vert
              back == Running(I, v, t)
          IN  /\ H[h].twin = -1 <=> back = {}
              /\ back # {} => H[h].twin = Highest(back)

\* a graph was built in which one half-edge has no twin and another has
\* several half-edges running back along it
C18_Witness ==
  /\ Built
  /\ \E h \in DOMAIN last.ret.halfedges : last.ret.halfedges[h].twin = -1
  /\ \E h \in DOMAIN last.ret.halfedges :
       /\ Cardinality(Running(mm.indices, HeadOf(mm.indices, h),
                              TailOf(mm.indices, h))) >= 2
       /\ last.ret.halfedges[h].twin # -1

\* the slots of the index list that hold v
SlotsOf(I, v) == {p \in 0 .. Len(I) - 1 : At(I, p) = v}

\* C19: in a graph returned by buildHalfEdge, vertices[v].halfedge = -1
\* exactly when v occurs in no triangle; otherwise it is a half-edge whose
\* tail is v, namely the one written last, which lies in the highest-index
\* face containing v.
C19_VertexRepresentative ==
  Built =>
    LET G == last.ret
        I == mm.indices
    IN  /\ DOMAIN G.vertices = 0 .. vertexCount(mm) - 1
        /\ \A v \in DOMAIN G.vertices :
             LET r == G.vertices[v]
             IN  /\ r = -1 <=> SlotsOf(I, v) = {}
                 /\ r # -1 =>
                      /\ r \in DOMAIN G.halfedges
                      /\ G.halfedges[BlockPrev(r)].vert = v
                      /\ r = Highest(SlotsOf(I, v))
                      /\ r \div 3 = Highest(FacesAt(I, v))

\* a graph was built in which one vertex is in no triangle and another is
\* in two triangles
C19_Witness ==
  /\ Built
  /\ \E v \in DOMAIN last.ret.vertices : last.ret.vertices[v] = -1
  /\ \E v \in DOMAIN last.ret.vertices :
       /\ Cardinality(FacesAt(mm.indices, v)) >= 2
       /\ last.ret.vertices[v] >= 3

\* C20: for every face f with index triple (i0,i1,i2), buildHalfEdge gives
\* half-edges 3f, 3f+1, 3f+2 the heads i1, i2, i0 respectively, so half-edge
\* 3f+k runs from the k-th vertex of the triple to the ((k+1) mod 3)-th, and
\* the tail of every half-edge equals the head of its in-block predecessor.
C20_Heads ==
  Built =>
    LET H == last.ret.halfedges
        I == mm.indices
    IN  /\ \A f \in FaceIds(I) :
             /\ H[3 * f].vert = Triple(I, f)[2]
             /\ H[3 * f + 1].vert = Triple(I, f)[3]
             /\ H[3 * f + 2].vert = Triple(I, f)[1]
        /\ \A f \in FaceIds(I) : \A k \in 0 .. 2 :
             /\ H[3 * f + k].vert = Triple(I, f)[((k + 1) % 3) + 1]
             /\ H[BlockPrev(3 * f + k)].vert = Triple(I, f)[k + 1]

\* a graph was built from two triangles of three distinct vertices each
C20_Witness ==
  /\ Built
  /\ Len(mm.indices) = 6
  /\ NonDegenerate(mm.indices)
  /\ last.ret.halfedges[4].vert = At(mm.indices, 5)

---------------------------------------------------------------------------
(* C13: buildHalfEdge on malformed input *)

\* the list holds a value >= N, or its length is no multiple of 3
Malformed(I, N) ==
  \/ Len(I) % 3 # 0
  \/ \E p \in 0 .. Len(I) - 1 : At(I, p) >= N

IsGraph(r) == DOMAIN r = {"vertices", "halfedges", "faces"}

\* C13: buildHalfEdge fails fast with an error, and returns no graph,
\* whenever the index list contains a value >= vertexCount or its length is
\* not a multiple of 3; it never returns a graph built from such input.
C13_FailFast ==
  Built =>
    /\ Malformed(mm.indices, vertexCount(mm)) =>
         (last.ret = TypeError /\ ~ IsGraph(last.ret))
    /\ IsGraph(last.ret) => ~ Malformed(mm.indices, vertexCount(mm))

\* buildHalfEdge threw on a list of two whole triangles whose last index
\* alone is out of range
C13_Witness ==
  /\ Built
  /\ Len(mm.indices) = 6
  /\ At(mm.indices, 5) >= vertexCount(mm)
  /\ \A p \in 0 .. 4 : At(mm.indices, p) < vertexCount(mm)
  /\ last.ret = TypeError

---------------------------------------------------------------------------
(* C14: the iteration ceiling of computeValences *)

\* The walk h -> next(twin(prev(h))) from start, continued from h, comes back
\* to a half-edge of `seen` before it meets start or a half-edge without a
\* twin: it then never ends, and only the ceiling stops it.
RECURSIVE Trapped(_, _, _, _)
Trapped(G, start, h, seen) ==
  LET across == G.halfedges[BlockPrev(h)].twin
  IN  IF across = -1 THEN FALSE
      ELSE LET h2 == G.halfedges[across].next
           IN  IF h2 = start THEN FALSE
               ELSE IF h2 \in seen THEN TRUE
               ELSE Trapped(G, start, h2, seen \cup {h2})

\* the ring walk of vertex v neither returns to its start nor meets a boundary
HitsCeiling(G, v) ==
  /\ G.vertices[v] # -1
  /\ Trapped(G, G.vertices[v], G.vertices[v], {G.vertices[v]})

Counted == last.op = "valences"

\* C14: when a vertex's ring walk neither returns to its start half-edge
\* nor meets a boundary within the iteration ceiling, the condition is
\* surfaced to the caller as a distinguishable outcome; the ceiling value is
\* never returned silently as that vertex's valence.
C14_CeilingSurfaced ==
  Counted =>
    \A v \in DOMAIN last.ret :
      HitsCeiling(earlier.ret, v) => last.ret[v] # guard

---------------------------------------------------------------------------
(* C15: the length of a recomputed normal *)

\* the latest call ended with recomputeNormals(mm)
Recomputed ==
  \/ FlipReturned(last, TRUE)
  \/ ValidSplit

\* the squares of the components of the normal of v sum to 1
UnitLength(m, v) ==
  LET x == At(m.normals, 3 * v)
      y == At(m.normals, 3 * v + 1)
      z == At(m.normals, 3 * v + 2)
  IN  x[2] * y[3] * z[3] + y[2] * x[3] * z[3] + z[2] * x[3] * y[3]
        = x[3] * y[3] * z[3]

ZeroNormal(m, v) ==
  \A k \in 0 .. 2 : At(m.normals, 3 * v + k) = Zero

Referenced(I, v) == FacesAt(I, v) # {}

Minus(u, w) == <<u[1] - w[1], u[2] - w[2], u[3] - w[3]>>
Plus(u, w) == <<u[1] + w[1], u[2] + w[2], u[3] + w[3]>>
Cross(u, w) == <<u[2] * w[3] - u[3] * w[2], u[3] * w[1] - u[1] * w[3],
                 u[1] * w[2] - u[2] * w[1]>>

\* the area vector of triangle f: zero when two of its corners coincide
AreaVector(m, f) ==
  LET t == Triple(m.indices, f)
  IN  Cross(Minus(Pos(m, t[2]), Pos(m, t[1])), Minus(Pos(m, t[3]), Pos(m, t[1])))

\* the sum of the area vectors of the triangles 0 .. f that v is a corner of
RECURSIVE AreaSum(_, _, _)
AreaSum(m, v, f) ==
  IF f < 0 THEN <<0, 0, 0>>
  ELSE Plus(AreaSum(m, v, f - 1),
            IF v \in VertSet(m.indices, f) THEN AreaVector(m, f)
            ELSE <<0, 0, 0>>)

Cancelled(m, v) == AreaSum(m, v, Len(m.indices) \div 3 - 1) = <<0, 0, 0>>

\* C15 as stated: after recomputeNormals, every vertex that is referenced by
\* at least one triangle has a normal of length 1, and every vertex
\* referenced by no triangle has the zero vector as its normal (a normal is
\* zero only when the vertex is unreferenced).
C15_UnitUnlessUnreferenced ==
  Recomputed =>
    \A v \in 0 .. vertexCount(mm) - 1 :
      /\ Referenced(mm.indices, v) => UnitLength(mm, v)
      /\ ~ Referenced(mm.indices, v) => ZeroNormal(mm, v)
      /\ ZeroNormal(mm, v) => ~ Referenced(mm.indices, v)

\* C15 amended: after recomputeNormals, every vertex at which the area
\* vectors of its triangles do not sum to zero has a normal of length 1, and
\* every other vertex has the zero vector as its normal: a vertex referenced
\* by no triangle, and also a referenced vertex whose triangles all have
\* zero area or cancel one another.
C15_UnitUnlessCancelled ==
  Recomputed =>
    \A v \in 0 .. vertexCount(mm) - 1 :
      /\ ~ Cancelled(mm, v) => UnitLength(mm, v)
      /\ Cancelled(mm, v) => ZeroNormal(mm, v)
      /\ ~ Referenced(mm.indices, v) => ZeroNormal(mm, v)

\* normals were recomputed, leaving a referenced vertex with the zero normal
\* and another vertex with a normal of length 1 that is not an axis
C15_Witness ==
  /\ Recomputed
  /\ \E v \in 0 .. vertexCount(mm) - 1 :
       Referenced(mm.indices, v) /\ ZeroNormal(mm, v)
  /\ \E v \in 0 .. vertexCount(mm) - 1 :
       /\ UnitLength(mm, v)
       /\ \E k \in 0 .. 2 : At(mm.normals, 3 * v + k)[3] > 1

---------------------------------------------------------------------------
(* C16, C17: the valence of an interior and of a boundary vertex *)

\* a consistently oriented manifold mesh, with or without boundary
Manifold(I) ==
  /\ Len(I) > 0
  /\ NonDegenerate(I)
  /\ DirectedOnce(I)
  /\ OneFan(I)

\* the half-edges that start or end at v
IncidentTo(I, v) ==
  {h \in HalfEdgeIds(I) : TailOf(I, h) = v \/ HeadOf(I, h) = v}

\* the vertices joined to v by an edge
Neighbours(I, v) ==
  {w \in UNION {VertSet(I, f) : f \in FaceIds(I)} :
     \E h \in IncidentTo(I, v) : w # v /\ w \in {TailOf(I, h), HeadOf(I, h)}}

InteriorVertex(I, v) ==
  /\ Referenced(I, v)
  /\ \A h \in IncidentTo(I, v) : HasTwin(I, h)

BoundaryVertex(I, v) ==
  /\ Referenced(I, v)
  /\ \E h \in IncidentTo(I, v) : ~ HasTwin(I, h)

\* the half-edges the ring walk of computeValences stands on, from h onwards
RECURSIVE RingVisits(_, _, _, _)
RingVisits(G, start, h, seen) ==
  LET across == G.halfedges[BlockPrev(h)].twin
  IN  IF across = -1 THEN seen \cup {h}
      ELSE LET h2 == G.halfedges[across].next
           IN  IF h2 = start \/ h2 \in seen THEN seen \cup {h}
               ELSE RingVisits(G, start, h2, seen \cup {h})

\* the ring walk from start comes back to start
RECURSIVE Returns(_, _, _, _)
Returns(G, start, h, seen) ==
  LET across == G.halfedges[BlockPrev(h)].twin
  IN  IF across = -1 THEN FALSE
      ELSE LET h2 == G.halfedges[across].next
           IN  IF h2 = start THEN TRUE
               ELSE IF h2 \in seen THEN FALSE
               ELSE Returns(G, start, h2, seen \cup {h2})

\* C16: for every interior vertex v of a manifold, consistently oriented
\* mesh (every half-edge incident to v has a twin), the ring walk of
\* computeValences for v visits only half-edges whose tail is v, returns to
\* its start, and sets val[v] to the number of distinct edges incident to v
\* (the number of neighbouring vertices).
C16_InteriorValence ==
  (Counted /\ Manifold(mm.indices)) =>
    \A v \in DOMAIN last.ret :
      InteriorVertex(mm.indices, v) =>
        LET G == earlier.ret
            start == G.vertices[v]
        IN  /\ \A h \in RingVisits(G, start, start, {}) :
                 TailOf(mm.indices, h) = v
            /\ Returns(G, start, start, {start})
            /\ last.ret[v] = Cardinality(Neighbours(mm.indices, v))

\* C17: for every boundary vertex v whose incident faces form a single fan
\* of k triangles in a manifold mesh, computeValences sets val[v] to the
\* number of distinct edges incident to v, i.e. k+1; in particular each
\* vertex of a mesh consisting of one triangle gets valence 2.
C17_BoundaryValence ==
  (Counted /\ Manifold(mm.indices)) =>
    \A v \in DOMAIN last.ret :
      BoundaryVertex(mm.indices, v) =>
        /\ last.ret[v] = Cardinality(FacesAt(mm.indices, v)) + 1
        /\ last.ret[v] = Cardinality(Neighbours(mm.indices, v))

---------------------------------------------------------------------------
(* C21: flips that would be degenerate *)

\* the flip of h: a->b has no two new triangles to write: the third vertices
\* c and d of the two faces coincide, or one of them is a or b
DegenerateCase(I, h) ==
  LET a == TailOf(I, h)
      b == HeadOf(I, h)
      c == Third(I, h)
      d == Third(I, TwinHE(I, h))
  IN  c = d \/ c \in {a, b} \/ d \in {a, b}

\* C21: for an interior half-edge h: a->b, when the third vertex c of h's
\* face and the third vertex d of the twin's face are equal, or c or d equals
\* a or b, edgeFlip returns false and leaves indices, positions and normals
\* unchanged.
C21_DegenerateFlipRejected ==
  (/\ last.op = "flip"
   /\ last.h \in HalfEdgeIds(last.pre.indices)
   /\ HasTwin(last.pre.indices, last.h)
   /\ DegenerateCase(last.pre.indices, last.h)) =>
    (FlipReturned(last, FALSE) /\ mm = last.pre)

---------------------------------------------------------------------------
(* C22: the directed edges around a flip *)

\* how many half-edges of I run from u to w
Count(I, u, w) == Cardinality(Running(I, u, w))

\* C22: a successful edgeFlip on h: a->b keeps the four directed edges b->c,
\* c->a, a->d, d->b in the two rewritten faces, and over the whole index list
\* the only change to the multiset of directed edges is that a->b and b->a
\* are replaced by c->d and d->c.
C22_WindingPreserved ==
  FlipReturned(last, TRUE) =>
    LET I  == last.pre.indices
        J  == mm.indices
        h  == last.h
        t  == TwinHE(I, h)
        a  == TailOf(I, h)
        b  == HeadOf(I, h)
        c  == Third(I, h)
        d  == Third(I, t)
        two == {3 * (h \div 3) + k : k \in 0 .. 2} \cup {3 * (t \div 3) + k : k \in 0 .. 2}
        V  == 0 .. vertexCount(mm) - 1
        Delta(u, w) == (IF <<u, w>> \in {<<c, d>>, <<d, c>>} THEN 1 ELSE 0)
                       - (IF <<u, w>> \in {<<a, b>>, <<b, a>>} THEN 1 ELSE 0)
    IN  /\ \A e \in {<<b, c>>, <<c, a>>, <<a, d>>, <<d, b>>} :
             \E g \in two : TailOf(J, g) = e[1] /\ HeadOf(J, g) = e[2]
        /\ \A u, w \in V : Count(J, u, w) = Count(I, u, w) + Delta(u, w)

---------------------------------------------------------------------------
(* C23: the order of the wireframe *)

\* the undirected edge of half-edge h; half-edges 3f, 3f+1, 3f+2 are the
\* edges (a,b), (b,c), (c,a) of triangle f = (a,b,c)
EdgeOf(I, h) == {TailOf(I, h), HeadOf(I, h)}

\* the half-edges at which the scan of the triangles meets a new edge
FirstMet(I) ==
  {h \in HalfEdgeIds(I) : \A g \in HalfEdgeIds(I) : g < h => EdgeOf(I, g) # EdgeOf(I, h)}

\* the j-th of them
NthMet(I, j) ==
  CHOOSE h \in FirstMet(I) : Cardinality({g \in FirstMet(I) : g < h}) = j - 1

Lowest(S) == CHOOSE x \in S : \A y \in S : x <= y

\* pair p comes before pair q in the sorted order of pairs
PairBefore(p, q) == p[1] < q[1] \/ (p[1] = q[1] /\ p[2] <= q[2])

\* C23: every pair output by buildWireframeIndices has its smaller vertex
\* index first, no pair occurs twice, and the pairs appear in the order in
\* which their undirected edge is first met when the triangles are scanned in
\* list order and the edges of a triangle (a,b,c) in the order (a,b), (b,c),
\* (c,a); the output is not sorted.
C23_WireframeOrder ==
  last.op = "wireframe" =>
    LET I == last.pre.indices
        lines == last.ret
        n == Len(lines) \div 2
        pair(j) == <<lines[2 * j - 1], lines[2 * j]>>
    IN  /\ Len(lines) = 2 * Cardinality(FirstMet(I))
        /\ \A j \in 1 .. n : pair(j)[1] <= pair(j)[2]
        /\ \A j, k \in 1 .. n : pair(j) = pair(k) => j = k
        /\ \A j \in 1 .. n :
             LET E == EdgeOf(I, NthMet(I, j))
             IN  pair(j) = <<Lowest(E), Highest(E)>>

\* the wireframe of a mesh was built, and its pairs are not in sorted order
C23_Witness ==
  /\ last.op = "wireframe"
  /\ Len(last.ret) >= 6
  /\ \E j \in 1 .. (Len(last.ret) \div 2) - 1 :
       ~ PairBefore(<<last.ret[2 * j - 1], last.ret[2 * j]>>,
                    <<last.ret[2 * j + 1], last.ret[2 * j + 2]>>)

---------------------------------------------------------------------------
(* C24: every directed edge in one triangle only, under edits *)

\* the call recorded in r changed the mesh: edgeFlip returned true, or
\* edgeSplit returned a vertex
Successful(r) == FlipReturned(r, TRUE) \/ (r.op = "split" /\ r.ret # -1)

\* every directed edge occurs once, no triangle repeats a vertex, and no two
\* triangles have the same three vertices
SimpleOriented(I) ==
  /\ DirectedOnce(I)
  /\ NonDegenerate(I)
  /\ NoDuplicateTriangle(I)

\* C24 as stated: from a mesh in which every directed edge occurs in at most
\* one triangle, a successful edgeFlip or edgeSplit leads to a mesh in which
\* every directed edge occurs in at most one triangle (and so does every
\* sequence of them), and the graph buildHalfEdge then builds has symmetric
\* twins.
C24_DirectedOnceKept ==
  (Successful(last) /\ DirectedOnce(last.pre.indices)) =>
    /\ DirectedOnce(mm.indices)
    /\ TwinSymmetric(buildHalfEdge(mm.indices, vertexCount(mm)))

\* C24 amended: from a mesh in which every directed edge occurs in at most
\* one triangle, no triangle has a repeated vertex and no two triangles have
\* the same three vertices, a successful edgeFlip or edgeSplit leads to a
\* mesh with the same three properties (and so does every sequence of them),
\* and the graph buildHalfEdge then builds has symmetric twins.
C24_SimpleOrientedKept ==
  (Successful(last) /\ SimpleOriented(last.pre.indices)) =>
    /\ SimpleOriented(mm.indices)
    /\ TwinSymmetric(buildHalfEdge(mm.indices, vertexCount(mm)))

\* two successful edits in a row, the second on an interior edge, from a
\* mesh of the amended kind
C24_Witness ==
  /\ Successful(last)
  /\ Successful(earlier)
  /\ SimpleOriented(earlier.pre.indices)
  /\ HasTwin(last.pre.indices, last.h)

---------------------------------------------------------------------------
(* C25: the shape of the three arrays *)

\* whole triangles, every index a vertex, one normal component per coordinate
WellFormed(m) ==
  /\ Len(m.indices) % 3 = 0
  /\ \A i \in DOMAIN m.indices : m.indices[i] \in 0 .. (Len(m.positions) \div 3) - 1
  /\ Len(m.normals) = Len(m.positions)

\* C25: from a mesh where indices.length is a multiple of 3, every index is
\* < positions.length / 3 and normals.length = positions.length, the three
\* facts hold after a call of edgeFlip or edgeSplit with any integer
\* argument, whether the call succeeds or is rejected (and so after every
\* sequence of calls).
C25_WellFormedKept ==
  (last.op \in {"flip", "split"} /\ WellFormed(last.pre)) => WellFormed(mm)

\* a successful split, then a call with an id that is out of range
C25_Witness ==
  /\ earlier.op = "split"
  /\ earlier.ret # -1
  /\ WellFormed(earlier.pre)
  /\ last.op \in {"flip", "split"}
  /\ last.h \notin HalfEdgeIds(last.pre.indices)

---------------------------------------------------------------------------
(* C26: no repeated vertex in a triangle, under edits *)

\* C26: if no triangle of the index list has a repeated vertex before a call
\* of edgeFlip or edgeSplit, none has one after it; so from an initial list
\* without such a triangle every sequence of calls leads to a list without
\* one.
C26_NonDegenerateKept ==
  (last.op \in {"flip", "split"} /\ NonDegenerate(last.pre.indices)) =>
    NonDegenerate(mm.indices)

\* two splits in a row that each wrote, the second one on an interior edge,
\* from a mesh without a repeated vertex
C26_Witness ==
  /\ earlier.op = "split"
  /\ earlier.ret # -1
  /\ NonDegenerate(earlier.pre.indices)
  /\ last.op = "split"
  /\ last.ret # -1
  /\ HasTwin(last.pre.indices, last.h)
  /\ Len(mm.indices) > Len(earlier.pre.indices) + 6

---------------------------------------------------------------------------
(* C27: valences and the order of the index list *)

\* the index list with the triple of triangle f rotated: (a,b,c) -> (b,c,a)
Rotated(I, f) ==
  [i \in DOMAIN I |->
     IF (i - 1) \div 3 = f THEN At(I, 3 * f + ((i - 1 + 1) % 3)) ELSE I[i]]

\* the index list with triangles f and g exchanged
Exchanged(I, f, g) ==
  [i \in DOMAIN I |->
     IF (i - 1) \div 3 = f THEN At(I, 3 * g + ((i - 1) % 3))
     ELSE IF (i - 1) \div 3 = g THEN At(I, 3 * f + ((i - 1) % 3))
     ELSE I[i]]

\* the lists that differ from I by one rotation or one exchange
Rearranged(I) ==
  {Rotated(I, f) : f \in FaceIds(I)}
    \cup {Exchanged(I, f, g) : f, g \in FaceIds(I)}

\* C27: the valence array of computeValences(buildHalfEdge(indices, N)) does
\* not depend on which outgoing half-edge represents a vertex: exchanging two
\* triangles of the index list, or rotating the triple of a triangle, leaves
\* every vertex's valence unchanged.
C27_ValenceOfMeshOnly ==
  (last.op = "valences" /\ WellFormed(mm)) =>
    \A J \in Rearranged(mm.indices) :
      computeValences(buildHalfEdge(J, vertexCount(mm))) = last.ret

---------------------------------------------------------------------------
(* C28: an operator applied through h or through its twin *)

\* how many triangles of I are a rotation of the triple T
TimesIn(I, T) == Cardinality({f \in FaceIds(I) : Triple(I, f) \in Rotations(T)})

\* I and J hold the same triangles the same number of times
SameTriangles(I, J) ==
  /\ Len(I) = Len(J)
  /\ \A f \in FaceIds(I) : TimesIn(I, Triple(I, f)) = TimesIn(J, Triple(I, f))

\* the call recorded in last went through an interior half-edge h whose twin
\* t has h as its twin
ThroughSymmetricTwin ==
  /\ last.op \in {"flip", "split"}
  /\ last.h \in HalfEdgeIds(last.pre.indices)
  /\ HasTwin(last.pre.indices, last.h)
  /\ TwinHE(last.pre.indices, TwinHE(last.pre.indices, last.h)) = last.h

\* edgeSplit(mm, h) and edgeSplit(mm, t) return the same new vertex with the
\* same position and leave the same multiset of triangles
SplitEitherWay ==
  (ThroughSymmetricTwin /\ last.op = "split") =>
    LET r == edgeSplit(last.pre, TwinHE(last.pre.indices, last.h))
    IN  /\ r.ret = last.ret
        /\ Pos(r.mm, r.ret) = Pos(mm, last.ret)
        /\ SameTriangles(r.mm.indices, mm.indices)

\* edgeFlip(mm, h) and edgeFlip(mm, t) return the same flag and leave
\* identical index lists
FlipEitherWay ==
  (ThroughSymmetricTwin /\ last.op = "flip") =>
    LET r == edgeFlip(last.pre, TwinHE(last.pre.indices, last.h))
    IN  /\ ~ last.threw
        /\ ~ r.threw
        /\ r.ret = last.ret
        /\ r.mm.indices = mm.indices

\* C28: for an interior half-edge h with twin t where twin(t) = h,
\* edgeFlip(mm, h) and edgeFlip(mm, t) return the same flag and leave
\* identical index lists, and edgeSplit(mm, h) and edgeSplit(mm, t) return
\* the same new vertex index with the same position and leave the same
\* multiset of triangles.
C28_TwinEquivalent == FlipEitherWay /\ SplitEitherWay

---------------------------------------------------------------------------
(* C29: the edge a button press operates on *)

\* the latest press called an operator (it was not answered by an alert
\* before the call)
Pressed == last.op \in {"pressFlip", "pressSplit"}

\* C29: a Flip or Split press only ever operates on the undirected edge
\* (a,b) the user most recently selected by clicking: after an edit has
\* rebuilt edgePairs and edgeToHalfedge, the retained selectedEdge either
\* still denotes that vertex pair or has been cleared before a press uses it.
C29_PressOnClickedEdge ==
  Pressed =>
    /\ ui.pressedOn # <<>>
    /\ EdgeOf(last.pre.indices, last.h) = {ui.pressedOn[1], ui.pressedOn[2]}

---------------------------------------------------------------------------
(* C30: IFC models left open *)

\* a handler holds model id between its loadIFC and the assignment to
\* openIfcModelID
HeldByHandler(id) ==
  \E k \in DOMAIN ifc.handlers :
    ifc.handlers[k].pc = "opened" /\ ifc.handlers[k].modelID = id

\* no handler is suspended
Quiescent == \A k \in DOMAIN ifc.handlers : ifc.handlers[k].pc = "done"

\* C30: under any interleaving of the change handlers of the IFC file input,
\* no opened model is left unclosed and unreferenced (an open model is the
\* one in openIfcModelID or the one a handler is about to store there), and
\* at most one model remains open when no handler is suspended.
C30_OneModelOpen ==
  /\ \A id \in ifc.open : id = ifc.openIfcModelID \/ HeldByHandler(id)
  /\ Quiescent => Cardinality(ifc.open) <= 1

====
